---- MODULE Spec2Model ----
(***************************************************************************)
(* Model of the Import Jaws Dictionary add-on                              *)
(* (src/addon/globalPlugins/importJawsDict.py): the JDF record parser      *)
(* SpeechDictItem and the import workflow of GlobalPlugin.                 *)
(*                                                                         *)
(* A Python str is a sequence of one-character strings.  Python exceptions *)
(* are modelled by the name of their class; "none" means no exception.     *)
(***************************************************************************)
EXTENDS Integers, Sequences, FiniteSets, TLC

VARIABLES
    \* ---- parser harness: one construction of a SpeechDictItem ----
    jdfLine,        \* the argument handed to SpeechDictItem(...)
    srcFields,      \* the seven field texts the line was written from, or NoFields
    ppc,            \* "ready" before the constructor call, "done" after it
    item,           \* __dict__ of the object the constructor returned, or NoItem
    raised,         \* class of the exception the constructor raised, or "none"
    \* ---- GlobalPlugin: the import workflow ----
    hpc,            \* position of onMultiStepImport
    file,           \* the handler's local "file": the chosen path, or NoFile
    targetDict,     \* the handler's local "targetDict", or NoTarget
    resultSet,      \* TRUE once importFromFile has bound the four attributes below
    importables,    \* self.importables
    unimportables,  \* self.unimportables
    lineCount,      \* self.lineCount
    recordCount,    \* self.recordCount
    jdfOpen,        \* TRUE while the file object of importFromFile is open
    pos,            \* number of lines the file iterator has yielded
    importExit,     \* how importFromFile last ended: "none", "running",
                    \* "returned", or the class of the exception it let out
    handlerExc,     \* class of the exception that left onMultiStepImport, or "none"
    runs,           \* invocations of onMultiStepImport so far
    calls           \* the methods the handler has called in this invocation, in order

pvars == <<jdfLine, srcFields, ppc, item, raised>>
ivars == <<hpc, file, targetDict, resultSet, importables, unimportables,
           lineCount, recordCount, jdfOpen, pos, importExit, handlerExc, runs,
           calls>>
vars == <<jdfLine, srcFields, ppc, item, raised, hpc, file, targetDict,
          resultSet, importables, unimportables, lineCount, recordCount,
          jdfOpen, pos, importExit, handlerExc, runs, calls>>

----------------------------------------------------------------------------
(* Python values *)

\* Python's None: a one-element sequence that is no str of the model,
\* whose elements are all single characters.
None == <<"None">>
PyTrue == <<"True">>
PyFalse == <<"False">>

\* U+0001, the character the escape \1 denotes inside a character class.
SOH == "SOH"

Digits == {"0", "1", "2", "3", "4", "5", "6", "7", "8", "9"}

Lower == {"a", "b", "c", "d", "e", "f", "g", "h", "i", "j", "k", "l", "m",
          "n", "o", "p", "q", "r", "s", "t", "u", "v", "w", "x", "y", "z"}

Upper == {"A", "B", "C", "D", "E", "F", "G", "H", "I", "J", "K", "L", "M",
          "N", "O", "P", "Q", "R", "S", "T", "U", "V", "W", "X", "Y", "Z"}

Whitespace == {" ", "\t", "\n", "\r"}

\* s[a..b] as a sequence (empty when b < a)
Slice(s, a, b) == [i \in 1..(b - a + 1) |-> s[a + i - 1]]

MaxOf(S) == CHOOSE x \in S : \A y \in S : y <= x

----------------------------------------------------------------------------
(* Name and attribute resolution *)

\* Names bound at module level (imports, classes, the testing flag).
ModuleNames == {"_TESTING_MODE", "wx", "gui", "ntpath", "re", "contextlib",
                "deque", "addonHandler", "globalPluginHandler", "globalVars",
                "ui", "config", "log", "SpeechDictItem",
                "DictionaryChooserPanel", "SetupImportDialog", "UserCanceled",
                "GlobalPlugin"}

\* Builtins the modelled code uses.
BuiltinNames == {"len", "open", "setattr", "AttributeError", "ValueError",
                 "FileNotFoundError", "IOError", "_"}

\* LEGB lookup of a bare name inside a method: the function's locals, then
\* the module, then the builtins.  Class attributes are not in scope.
NameDefined(name, locals) == name \in (locals \cup ModuleNames \cup BuiltinNames)

\* Base classes of the exception classes the code meets (IOError is OSError).
ExcBases(cls) ==
    CASE cls = "FileNotFoundError" -> {"FileNotFoundError", "OSError", "IOError"}
      [] cls = "OSError" -> {"OSError", "IOError"}
      [] cls = "UnicodeDecodeError" -> {"UnicodeDecodeError", "ValueError"}
      [] OTHER -> {cls}

\* except <classes>: does the clause catch an exception of class exc
ExceptMatches(exc, classes) == (ExcBases(exc) \cap classes) # {}

----------------------------------------------------------------------------
(* SpeechDictItem.RECORD_EXP *)

\* "." : any character but a newline
Dot(c) == c # "\n"

\* "[^\1]" : inside a character class \1 is the octal escape for U+0001, not
\* a backreference, so the class is "any character but U+0001".
NotBackslashOne(c) == c # SOH

LangChars == Digits \cup Lower \cup Upper \cup {"*"}
OutLangChars == Digits \cup {"*"}

\* The seven fields after the separator, by the shape of their pattern:
\* ".+[^\1]" (inWord, outWord, synth, voice), "[0-9a-zA-Z\*]+" (lang),
\* "[0-9\*]+" (outLang), "[01]" (case).
FieldShape == <<"word", "word", "lang", "word", "word", "outLang", "case">>

\* Does s[a..b] match the pattern of field k
FieldMatches(s, k, a, b) ==
    CASE FieldShape[k] = "word" ->
            /\ b >= a + 1
            /\ \A i \in a..(b - 1) : Dot(s[i])
            /\ NotBackslashOne(s[b])
      [] FieldShape[k] = "lang" ->
            /\ b >= a
            /\ \A i \in a..b : s[i] \in LangChars
      [] FieldShape[k] = "outLang" ->
            /\ b >= a
            /\ \A i \in a..b : s[i] \in OutLangChars
      [] OTHER ->
            /\ b = a
            /\ s[a] \in {"0", "1"}

\* The ends b at which field k, starting at a, can stop so that the rest of
\* the pattern (separator \1, the later fields, "$") still matches.
RECURSIVE FieldEnds(_, _, _)
FieldEnds(s, k, a) ==
    { b \in a..(Len(s) - 1) :
        /\ FieldMatches(s, k, a, b)
        /\ s[b + 1] = s[1]
        /\ IF k = 7 THEN b + 1 = Len(s)
                    ELSE FieldEnds(s, k + 1, b + 2) # {} }

\* Greedy quantifiers: each field takes the longest end that lets the rest match.
RECURSIVE FieldSpans(_, _, _)
FieldSpans(s, k, a) ==
    LET b == MaxOf(FieldEnds(s, k, a))
    IN  IF k = 7 THEN <<Slice(s, a, b)>>
                 ELSE <<Slice(s, a, b)>> \o FieldSpans(s, k + 1, b + 2)

\* RECORD_EXP.fullmatch(s).groupdict(), or None.  The groups in order:
\* inWord, outWord, lang, synth, voice, case (outLang is not captured).
RECORD_EXP_fullmatch(s) ==
    IF Len(s) >= 2 /\ Dot(s[1]) /\ FieldEnds(s, 1, 2) # {}
    THEN LET f == FieldSpans(s, 1, 2)
         IN  <<f[1], f[2], f[3], f[4], f[5], f[7]>>
    ELSE None

\* str.strip(): leading and trailing whitespace removed
RECURSIVE Strip(_)
Strip(s) ==
    IF s = <<>> THEN s
    ELSE IF s[1] \in Whitespace THEN Strip(Tail(s))
    ELSE IF s[Len(s)] \in Whitespace THEN Strip(SubSeq(s, 1, Len(s) - 1))
    ELSE s

----------------------------------------------------------------------------
(* SpeechDictItem *)

\* An object's __dict__ is a function from attribute names to values.
HasAttr(self, name) == name \in DOMAIN self
SetAttr(self, name, value) == (name :> value) @@ self

\* What a method hands back: the exception it raised ("none" when it
\* returned) and the object as the method left it.
Outcome(exc, self) == [exc |-> exc, self |-> self]

\* for field, value in record.groupdict().values(): ... setattr(self, field, value)
\* The loop walks the VALUES of the group dictionary, so each captured text
\* is itself unpacked into the two targets: a text of two characters sets the
\* attribute named by its first character to its second, any other length
\* raises ValueError (too many / not enough values to unpack).
RECURSIVE SetFieldsLoop(_, _, _)
SetFieldsLoop(self, values, i) ==
    IF i > Len(values) THEN Outcome("none", self)
    ELSE IF Len(values[i]) # 2 THEN Outcome("ValueError", self)
    ELSE SetFieldsLoop(SetAttr(self, values[i][1], <<values[i][2]>>), values, i + 1)

\* SpeechDictItem.parseJDFLine(self, line).  The names RECORD_EXP and strip
\* are looked up as bare names: RECORD_EXP is a class attribute and strip a
\* str method, neither is a local, a module global or a builtin.
parseJDFLine(self, line) ==
    IF line = None THEN Outcome("AttributeError", self)
    ELSE IF ~NameDefined("RECORD_EXP", {"self", "line"}) THEN Outcome("NameError", self)
    ELSE IF ~NameDefined("strip", {"self", "line"}) THEN Outcome("NameError", self)
    ELSE LET record == RECORD_EXP_fullmatch(Strip(line))
         IN  IF record = None THEN Outcome("ValueError", self)
             ELSE SetFieldsLoop(self, record, 1)

\* The characters IGNORECASE lets each character of "<sound" match.
SoundTagOpen == <<{"<"}, {"s", "S"}, {"o", "O"}, {"u", "U"}, {"n", "N"}, {"d", "D"}>>

\* The end of a match of "<sound +.*?/>" starting at s[i], or 0: "<sound" in
\* any case, at least one space, then the shortest run of non-newline
\* characters that reaches "/>".
SoundTagEnd(s, i) ==
    IF /\ i + 8 <= Len(s)
       /\ \A k \in 1..6 : s[i + k - 1] \in SoundTagOpen[k]
       /\ s[i + 6] = " "
    THEN LET ends == { j \in (i + 8)..Len(s) :
                         /\ s[j - 1] = "/"
                         /\ s[j] = ">"
                         /\ \A k \in (i + 7)..(j - 2) : Dot(s[k]) }
         IN  IF ends = {} THEN 0 ELSE CHOOSE j \in ends : \A m \in ends : j <= m
    ELSE 0

\* re.sub(r"<sound +.*?/>", "", s, flags=re.IGNORECASE): every leftmost
\* non-overlapping match removed.
RECURSIVE SoundTagSub(_)
SoundTagSub(s) ==
    IF s = <<>> THEN s
    ELSE LET e == SoundTagEnd(s, 1)
         IN  IF e > 0 THEN SoundTagSub(SubSeq(s, e + 1, Len(s)))
                      ELSE <<s[1]>> \o SoundTagSub(Tail(s))

\* lang, synth, voice: "" or "*" becomes None
Unspecified(v) == IF v = <<>> \/ v = <<"*">> THEN None ELSE v

\* The block under contextlib.suppress(AttributeError): the first read of an
\* unset attribute ends the block, whatever was assigned before stays.
SuppressedBlock(self) ==
    IF ~HasAttr(self, "lang") THEN self
    ELSE LET s1 == SetAttr(self, "lang", Unspecified(self["lang"]))
         IN  IF ~HasAttr(s1, "synth") THEN s1
             ELSE LET s2 == SetAttr(s1, "synth", Unspecified(s1["synth"]))
                  IN  IF ~HasAttr(s2, "voice") THEN s2
                      ELSE LET s3 == SetAttr(s2, "voice", Unspecified(s2["voice"]))
                           IN  IF ~HasAttr(s3, "case") THEN s3
                               ELSE SetAttr(s3, "case",
                                        IF s3["case"] # None /\ s3["case"] = <<"1">>
                                        THEN PyTrue ELSE PyFalse)

\* SpeechDictItem.process(self)
process(self) ==
    LET s0 == SetAttr(self, "isValid", PyFalse)
    IN  IF ~HasAttr(s0, "inWord") THEN Outcome("AttributeError", s0)
        ELSE IF s0["inWord"] = None \/ Len(s0["inWord"]) < 1 THEN Outcome("ValueError", s0)
        ELSE IF ~HasAttr(s0, "outWord") THEN Outcome("AttributeError", s0)
        ELSE IF s0["outWord"] = None THEN Outcome("ValueError", s0)
        ELSE LET s1 == SetAttr(s0, "outWord", SoundTagSub(s0["outWord"]))
             IN  IF Len(s1["outWord"]) < 1 THEN Outcome("ValueError", s1)
                 ELSE Outcome("none", SetAttr(SuppressedBlock(s1), "isValid", PyTrue))

\* __init__ as it would be if it kept the object after a failed parse.
SpeechDictItem_keepsObject(line) ==
    LET s0 == ("isValid" :> PyFalse)
        parsed == parseJDFLine(s0, line)
    IN  IF parsed.exc # "none" THEN Outcome("none", parsed.self) ELSE process(parsed.self)

\* SpeechDictItem.__init__(self, jdfLine)
SpeechDictItem(line) ==
    LET s0 == ("isValid" :> PyFalse)
        parsed == parseJDFLine(s0, line)
    IN  IF parsed.exc # "none" THEN parsed ELSE process(parsed.self)

----------------------------------------------------------------------------
(* GlobalPlugin: state and inputs *)

NoFile == <<>>
NoTarget == 99

\* Longest file the workflow is given, in lines.
MaxLines == 2

\* Invocations of the menu handler in one behaviour.
MaxRuns == 2

\* Lines as iterating the file yields them: a record, a line that is no
\* record, a blank line.
FileLines == {<<",", "a", "b", ",", "c", "d", ",", "0", "9", ",", "e", "l", ",", "p", "a", ",", "0", ",", "1", ",", "\n">>,
              <<"n", "o", "t", " ", "a", " ", "r", "e", "c", "o", "r", "d", "\n">>,
              <<"\n">>}

FileContents == UNION {[1..n -> FileLines] : n \in 0..MaxLines}

\* What a chosen path leads to: no file, or a file with these lines.
Paths == {[exists |-> FALSE, lines |-> <<>>]}
             \cup {[exists |-> TRUE, lines |-> ls] : ls \in FileContents}

\* Indexes into NVDA_DICTS
TargetChoices == 0..2

PluginInit ==
    /\ hpc = "idle"
    /\ file = NoFile
    /\ targetDict = NoTarget
    /\ resultSet = FALSE
    /\ importables = <<>>
    /\ unimportables = <<>>
    /\ lineCount = 0
    /\ recordCount = 0
    /\ jdfOpen = FALSE
    /\ pos = 0
    /\ importExit = "none"
    /\ handlerExc = "none"
    /\ runs = 0
    /\ calls = <<>>

\* Methods of collections.deque and of list.
DequeMethods == {"append", "appendleft", "clear", "copy", "count", "extend",
                 "extendleft", "index", "insert", "pop", "popleft", "remove",
                 "reverse", "rotate"}
ListMethods == {"append", "clear", "copy", "count", "extend", "index",
                "insert", "pop", "remove", "reverse", "sort"}

\* Methods of GlobalPlugin.
PluginMethods == {"terminate", "onMultiStepImport", "askForSource",
                  "askForTarget", "importFromFile", "confirmImportSimple",
                  "confirmImportsWithBads", "onSetupImportDialog_old"}

----------------------------------------------------------------------------
(* GlobalPlugin.onMultiStepImport: the except clauses *)

\* Where the handler goes with an exception raised inside its try block.
\* UserCanceled is caught and the handler returns.  FileNotFoundError and
\* IOError are caught too, but the clause's log line formats the name
\* "path", which nothing binds, so the clause itself raises NameError.
\* Anything else leaves the handler.
HandlerExcept(e, locals) ==
    IF ExceptMatches(e, {"UserCanceled"})
    THEN [hpc |-> "returned", exc |-> "none"]
    ELSE IF ExceptMatches(e, {"FileNotFoundError", "IOError"})
    THEN IF NameDefined("path", locals \cup {"fnf"})
         THEN [hpc |-> "returned", exc |-> "none"]
         ELSE [hpc |-> "escaped", exc |-> "NameError"]
    ELSE [hpc |-> "escaped", exc |-> e]

\* The menu item is chosen: evt.Skip(), then step 1.
onMultiStepImport ==
    /\ hpc \in {"idle", "returned", "escaped"}
    /\ runs < MaxRuns
    /\ runs' = runs + 1
    /\ hpc' = "askForSource"
    /\ file' = NoFile
    /\ targetDict' = NoTarget
    /\ handlerExc' = "none"
    /\ UNCHANGED <<resultSet, importables, unimportables, lineCount,
                   recordCount, jdfOpen, pos, importExit>>
    /\ calls' = <<"askForSource">>
    /\ UNCHANGED pvars

\* What askForSource raises when the user cancels: "raise UserCancelException".
SourceCancelRaises ==
    IF NameDefined("UserCancelException", {"self", "sourceChooser"})
    THEN "UserCancelException" ELSE "NameError"

\* Step 1, cancelled.
askForSourceCancel ==
    /\ hpc = "askForSource"
    /\ LET h == HandlerExcept(SourceCancelRaises, {"self", "evt"})
       IN  hpc' = h.hpc /\ handlerExc' = h.exc
    /\ UNCHANGED <<file, targetDict, resultSet, importables, unimportables,
                   lineCount, recordCount, jdfOpen, pos, importExit, runs>>
    /\ UNCHANGED calls
    /\ UNCHANGED pvars

\* Step 1, a path chosen.
askForSourceOk ==
    /\ hpc = "askForSource"
    /\ \E p \in Paths : file' = p
    /\ hpc' = "askForTarget"
    /\ UNCHANGED <<targetDict, resultSet, importables, unimportables,
                   lineCount, recordCount, jdfOpen, pos, importExit, handlerExc, runs>>
    /\ calls' = Append(calls, "askForTarget")
    /\ UNCHANGED pvars

\* Step 2, cancelled: "raise UserCanceled".
askForTargetCancel ==
    /\ hpc = "askForTarget"
    /\ LET h == HandlerExcept("UserCanceled", {"self", "evt", "file"})
       IN  hpc' = h.hpc /\ handlerExc' = h.exc
    /\ UNCHANGED <<file, targetDict, resultSet, importables, unimportables,
                   lineCount, recordCount, jdfOpen, pos, importExit, runs>>
    /\ UNCHANGED calls
    /\ UNCHANGED pvars

\* Step 2, a dictionary chosen.
askForTargetOk ==
    /\ hpc = "askForTarget"
    /\ \E d \in TargetChoices : targetDict' = d
    /\ hpc' = "importFromFile"
    /\ UNCHANGED <<file, resultSet, importables, unimportables, lineCount,
                   recordCount, jdfOpen, pos, importExit, handlerExc, runs>>
    /\ calls' = Append(calls, "importFromFile")
    /\ UNCHANGED pvars

----------------------------------------------------------------------------
(* GlobalPlugin.importFromFile *)

HandlerLocals == {"self", "evt", "file", "targetDict"}
ImportLocals == {"self", "pathAndFile", "jdf", "line"}

\* importFromFile as it would be if it opened the file before binding the
\* four attributes: a failed open leaves the attributes of the last import.
importFromFileOpen_opensFirst ==
    /\ hpc = "importFromFile"
    /\ pos' = 0
    /\ IF file.exists
       THEN /\ resultSet' = TRUE
            /\ importables' = <<>>
            /\ unimportables' = <<>>
            /\ lineCount' = 0
            /\ recordCount' = 0
            /\ jdfOpen' = TRUE
            /\ importExit' = "running"
            /\ hpc' = "reading"
            /\ handlerExc' = handlerExc
       ELSE /\ UNCHANGED <<resultSet, importables, unimportables, lineCount,
                           recordCount>>
            /\ jdfOpen' = FALSE
            /\ importExit' = "FileNotFoundError"
            /\ LET h == HandlerExcept("FileNotFoundError", HandlerLocals)
               IN  hpc' = h.hpc /\ handlerExc' = h.exc
    /\ UNCHANGED <<file, targetDict, runs>>
    /\ UNCHANGED calls
    /\ UNCHANGED pvars

\* importFromFile as it would be if the four attributes were bound once, at
\* construction, and each import went on from what the last one left.
importFromFileOpen_keepsCounts ==
    /\ hpc = "importFromFile"
    /\ resultSet' = TRUE
    /\ UNCHANGED <<importables, unimportables, lineCount, recordCount>>
    /\ pos' = 0
    /\ IF file.exists
       THEN /\ jdfOpen' = TRUE
            /\ importExit' = "running"
            /\ hpc' = "reading"
            /\ handlerExc' = handlerExc
       ELSE /\ jdfOpen' = FALSE
            /\ importExit' = "FileNotFoundError"
            /\ LET h == HandlerExcept("FileNotFoundError", HandlerLocals)
               IN  hpc' = h.hpc /\ handlerExc' = h.exc
    /\ UNCHANGED <<file, targetDict, runs>>
    /\ UNCHANGED calls
    /\ UNCHANGED pvars

\* The four attributes are bound afresh, then the file is opened.
importFromFileOpen ==
    /\ hpc = "importFromFile"
    /\ resultSet' = TRUE
    /\ importables' = <<>>
    /\ unimportables' = <<>>
    /\ lineCount' = 0
    /\ recordCount' = 0
    /\ pos' = 0
    /\ IF file.exists
       THEN /\ jdfOpen' = TRUE
            /\ importExit' = "running"
            /\ hpc' = "reading"
            /\ handlerExc' = handlerExc
       ELSE /\ jdfOpen' = FALSE
            /\ importExit' = "FileNotFoundError"
            /\ LET h == HandlerExcept("FileNotFoundError", HandlerLocals)
               IN  hpc' = h.hpc /\ handlerExc' = h.exc
    /\ UNCHANGED <<file, targetDict, runs>>
    /\ UNCHANGED calls
    /\ UNCHANGED pvars

\* self.importables.Append(SpeechDictItem(line)); self.recordCount += 1
\* The method is looked up before the argument is evaluated.
TryBody(st, line) ==
    IF "Append" \notin DequeMethods THEN [exc |-> "AttributeError", st |-> st]
    ELSE LET r == SpeechDictItem(line)
         IN  IF r.exc # "none" THEN [exc |-> r.exc, st |-> st]
             ELSE [exc |-> "none",
                   st |-> [st EXCEPT !.importables = Append(@, r.self),
                                     !.recordCount = @ + 1]]

\* except ValueError: unimportables.Append(line)
\* The bare name is not the attribute self.unimportables, which the clause
\* never touches.
ExceptValueError(st, line) ==
    [exc |-> IF ~NameDefined("unimportables", ImportLocals) THEN "NameError"
             ELSE IF "Append" \notin ListMethods THEN "AttributeError"
             ELSE "none",
     st |-> st]

\* The try statement as it would be with a bare "except: pass".
TryLine_swallows(st, line) == [exc |-> "none", st |-> st]

\* The try statement of the loop body, on the attributes
\* st = [importables, unimportables, recordCount].
TryLine(st, line) ==
    LET b == TryBody(st, line)
    IN  IF b.exc = "none" THEN b
        ELSE IF ExceptMatches(b.exc, {"ValueError"}) THEN ExceptValueError(b.st, line)
        ELSE b

\* The loop body as it would be without the with statement, the file being
\* closed by a jdf.close() after the loop: an exception skips the close.
importFromFileLine_noWith ==
    /\ hpc = "reading"
    /\ pos < Len(file.lines)
    /\ pos' = pos + 1
    /\ lineCount' = lineCount + 1
    /\ \E line \in {file.lines[pos + 1]} :
       \E r \in {TryLine([importables |-> importables,
                          unimportables |-> unimportables,
                          recordCount |-> recordCount], line)} :
           /\ importables' = r.st.importables
           /\ unimportables' = r.st.unimportables
           /\ recordCount' = r.st.recordCount
           /\ IF r.exc = "none"
              THEN /\ UNCHANGED <<jdfOpen, importExit, hpc, handlerExc>>
              ELSE /\ UNCHANGED jdfOpen
                   /\ importExit' = r.exc
                   /\ LET h == HandlerExcept(r.exc, HandlerLocals)
                      IN  hpc' = h.hpc /\ handlerExc' = h.exc
    /\ UNCHANGED <<file, targetDict, resultSet, runs>>
    /\ UNCHANGED calls
    /\ UNCHANGED pvars

\* One pass of "for line in jdf": the line is counted, then tried.  An
\* exception the try statement lets out closes the file (the with block)
\* and leaves importFromFile.
importFromFileLine ==
    /\ hpc = "reading"
    /\ pos < Len(file.lines)
    /\ pos' = pos + 1
    /\ lineCount' = lineCount + 1
    /\ \E line \in {file.lines[pos + 1]} :
       \E r \in {TryLine([importables |-> importables,
                          unimportables |-> unimportables,
                          recordCount |-> recordCount], line)} :
           /\ importables' = r.st.importables
           /\ unimportables' = r.st.unimportables
           /\ recordCount' = r.st.recordCount
           /\ IF r.exc = "none"
              THEN /\ UNCHANGED <<jdfOpen, importExit, hpc, handlerExc>>
              ELSE /\ jdfOpen' = FALSE
                   /\ importExit' = r.exc
                   /\ LET h == HandlerExcept(r.exc, HandlerLocals)
                      IN  hpc' = h.hpc /\ handlerExc' = h.exc
    /\ UNCHANGED <<file, targetDict, resultSet, runs>>
    /\ UNCHANGED calls
    /\ UNCHANGED pvars

\* Reading the next line fails: OSError leaves the loop and the with block.
importFromFileReadError ==
    /\ hpc = "reading"
    /\ jdfOpen' = FALSE
    /\ importExit' = "OSError"
    /\ LET h == HandlerExcept("OSError", HandlerLocals)
       IN  hpc' = h.hpc /\ handlerExc' = h.exc
    /\ UNCHANGED <<file, targetDict, resultSet, importables, unimportables,
                   lineCount, recordCount, pos, runs>>
    /\ UNCHANGED calls
    /\ UNCHANGED pvars

\* The iterator is exhausted: the with block closes the file, the method returns.
importFromFileReturn ==
    /\ hpc = "reading"
    /\ pos = Len(file.lines)
    /\ jdfOpen' = FALSE
    /\ importExit' = "returned"
    /\ hpc' = "summary"
    /\ UNCHANGED <<file, targetDict, resultSet, importables, unimportables,
                   lineCount, recordCount, pos, handlerExc, runs>>
    /\ UNCHANGED calls
    /\ UNCHANGED pvars

----------------------------------------------------------------------------
(* GlobalPlugin.onMultiStepImport: choosing the summary *)

\* What the if/elif after importFromFile raises ("none" when it raises
\* nothing).  Each call looks up the method on self, then evaluates the
\* argument "path + file".
SummaryRaises(lines, records) ==
    IF lines = records
    THEN IF "confirmImportSimple" \notin PluginMethods THEN "AttributeError"
         ELSE IF ~NameDefined("path", HandlerLocals) THEN "NameError"
         ELSE "none"
    ELSE IF lines > records
    THEN IF "confirmImportWithBads" \notin PluginMethods THEN "AttributeError"
         ELSE IF ~NameDefined("path", HandlerLocals) THEN "NameError"
         ELSE "none"
    ELSE "none"

\* Attributes an instance of GlobalPlugin has after an import: the class
\* attributes, those __init__ binds and those importFromFile binds.
SelfAttributes == {"NVDA_DICTS", "lastPath", "lastFile", "outWordolsMenu",
                   "outWordolsMenuItem", "importables", "unimportables",
                   "lineCount", "recordCount"}

\* The confirmation the if/elif goes on to call, <<>> when it calls none.
SummaryCalls(lines, records) ==
    IF SummaryRaises(lines, records) # "none" THEN <<>>
    ELSE IF lines = records THEN <<"confirmImportSimple">>
    ELSE IF lines > records THEN <<"confirmImportWithBads">>
    ELSE <<>>

\* What either confirmation raises while it formats its message: the
\* message names self.NVDA_DICTS[self.targetDict], and targetDict is a local
\* of the handler, never an attribute.
ConfirmRaises ==
    IF "targetDict" \notin SelfAttributes THEN "AttributeError" ELSE "none"

\* What the whole summary step raises.
SummaryOutcome(lines, records) ==
    IF SummaryCalls(lines, records) # <<>> THEN ConfirmRaises
    ELSE SummaryRaises(lines, records)

summary ==
    /\ hpc = "summary"
    /\ calls' = calls \o SummaryCalls(lineCount, recordCount)
    /\ LET e == SummaryOutcome(lineCount, recordCount)
           h == HandlerExcept(e, HandlerLocals)
       IN  IF e = "none" THEN hpc' = "returned" /\ handlerExc' = "none"
                         ELSE hpc' = h.hpc /\ handlerExc' = h.exc
    /\ UNCHANGED <<file, targetDict, resultSet, importables, unimportables,
                   lineCount, recordCount, jdfOpen, pos, importExit, runs>>
    /\ UNCHANGED pvars

Init ==
    /\ PluginInit
    /\ jdfLine = None
    /\ srcFields = <<>>
    /\ ppc = "unused"
    /\ item = <<>>
    /\ raised = "none"

Next ==
    \/ onMultiStepImport
    \/ askForSourceCancel
    \/ askForSourceOk
    \/ askForTargetCancel
    \/ askForTargetOk
    \/ importFromFileOpen
    \/ importFromFileLine
    \/ importFromFileReadError
    \/ importFromFileReturn
    \/ summary

Spec == Init /\ [][Next]_vars

----------------------------------------------------------------------------
(* Parser harness: SpeechDictItem(line) applied to bounded inputs *)

NoFields == <<>>
NoItem == <<>>

\* Field texts the input lines are written from.
InWords == {<<"a">>, <<"a", "b">>, <<"c", "a", "t">>}
OutWords == {<<"b">>, <<"k", "a", "t">>, <<"<", "S", "o", "u", "n", "d", " ", "x", "/", ">">>, <<"<", "s", "o", "u", "n", "d", " ", "x", "=", "'", "1", "'", "/", ">", "h", "i">>}
LangTexts == {<<"*">>, <<>>, <<"0", "9">>}
SynthTexts == {<<"*">>, <<>>, <<"e", "l">>}
VoiceTexts == {<<"*">>, <<>>, <<"p", "a">>}
OutLangTexts == {<<"*">>, <<"0">>}
CaseTexts == {<<"0">>, <<"1">>}
Delims == {".", ","}

FieldTexts ==
    [delim : Delims, inWord : InWords, outWord : OutWords, lang : LangTexts,
     synth : SynthTexts, voice : VoiceTexts, outLang : OutLangTexts,
     case : CaseTexts]

\* Lines that are not written from fields.
RawLines == {None, <<>>, <<"n", "o", "t", " ", "a", " ", "r", "e", "c", "o", "r", "d", " ", "a", "t", " ", "a", "l", "l">>,
             <<".", "c", "a", ".", "t", ".", "k", "a", "t", ".", "0", "9", ".", "e", "l", ".", "p", "a", ".", "0", ".", "1", ".">>}

\* A JDF record as the class docstring describes it: the separator, then
\* each of the seven fields followed by the separator.
Serialize(f) ==
    <<f.delim>> \o f.inWord \o <<f.delim>> \o f.outWord \o <<f.delim>>
        \o f.lang \o <<f.delim>> \o f.synth \o <<f.delim>> \o f.voice
        \o <<f.delim>> \o f.outLang \o <<f.delim>> \o f.case \o <<f.delim>>

\* Lines arrive bare or, as iterating a text file yields them, newline-ended.
LineEnds == {<<>>, <<"\n">>}

ParseInit ==
    /\ \/ /\ srcFields \in FieldTexts
          /\ \E nl \in LineEnds : jdfLine = Serialize(srcFields) \o nl
       \/ /\ srcFields = NoFields
          /\ jdfLine \in RawLines
    /\ ppc = "ready"
    /\ item = NoItem
    /\ raised = "none"
    /\ PluginInit

\* item = SpeechDictItem(jdfLine): the caller gets the object when the
\* constructor returns and nothing but the exception when it raises.
NewSpeechDictItem ==
    /\ ppc = "ready"
    /\ LET r == SpeechDictItem(jdfLine)
       IN  /\ raised' = r.exc
           /\ item' = IF r.exc = "none" THEN r.self ELSE NoItem
    /\ ppc' = "done"
    /\ UNCHANGED <<jdfLine, srcFields>>
    /\ UNCHANGED ivars

ParseNext == NewSpeechDictItem

ParseSpec == ParseInit /\ [][ParseNext]_vars

----------------------------------------------------------------------------
(* Properties of the import loop (specification Spec) *)

\* lines[i] for the i in idx, in increasing order of i
RECURSIVE LinesAt(_, _, _)
LinesAt(lines, idx, i) ==
    IF i > Len(lines) THEN <<>>
    ELSE IF i \in idx THEN <<lines[i]>> \o LinesAt(lines, idx, i + 1)
    ELSE LinesAt(lines, idx, i + 1)

\* The Rule each line in idx parses to, in increasing order of i
RECURSIVE RulesAt(_, _, _)
RulesAt(lines, idx, i) ==
    IF i > Len(lines) THEN <<>>
    ELSE IF i \in idx THEN <<SpeechDictItem(lines[i]).self>> \o RulesAt(lines, idx, i + 1)
    ELSE RulesAt(lines, idx, i + 1)

\* importFromFile has just returned to the handler without an exception
ImportReturned == hpc = "summary" /\ importExit = "returned"

\* importFromFile has ended by letting an exception out
ImportRaised == importExit \notin {"none", "running", "returned"}

C2_MalformedLineAbsorbed ==
    /\ ImportRaised => ExceptMatches(importExit, {"IOError"})
    /\ hpc \in {"reading", "summary"} =>
           \A i \in 1..pos :
               SpeechDictItem(file.lines[i]).exc # "none" =>
                   \E k \in 1..Len(unimportables) : unimportables[k] = file.lines[i]

Called(m) == \E i \in 1..Len(calls) : calls[i] = m

\* The current invocation has entered importFromFile and bound its attributes
ImportStarted == Called("importFromFile") /\ hpc # "importFromFile"

\* C11: every import starts from fresh counts and collections: whatever
\* earlier imports on the same plugin left, once an invocation has entered
\* importFromFile the line count is the number of lines read from this file,
\* and the accepted and rejected collections hold entries of this file only.
C11_FreshResult ==
    ImportStarted =>
        /\ resultSet
        /\ lineCount = pos
        /\ pos <= Len(file.lines)
        /\ recordCount = Len(importables)
        /\ \E acc \in SUBSET (1..pos) :
               /\ importables = RulesAt(SubSeq(file.lines, 1, pos), acc, 1)
               /\ \E rej \in SUBSET ((1..pos) \ acc) :
                      unimportables = LinesAt(SubSeq(file.lines, 1, pos), rej, 1)

\* A second invocation has opened its file after an earlier import, and the
\* counts are back at zero before its first line is read
C11_Witness ==
    /\ runs = 2
    /\ ImportStarted
    /\ hpc = "reading"
    /\ pos = 0
    /\ lineCount = 0
    /\ recordCount = 0
    /\ importables = <<>>
    /\ unimportables = <<>>

\* C12: the file importFromFile opened is closed on every way out of it: a
\* normal return, a failed read, and any other exception it lets out.  The
\* file is open only while importFromFile is scanning.
C12_FileClosedOnExit ==
    /\ (hpc # "reading" \/ importExit # "running") => ~jdfOpen
    /\ (ImportReturned \/ ImportRaised) => ~jdfOpen

\* An exception other than a read error has left importFromFile in the middle
\* of a file it had opened, and the file is closed
C12_Witness ==
    /\ ImportStarted
    /\ file.exists
    /\ pos > 0
    /\ importExit = "AttributeError"
    /\ ~jdfOpen

\* The steps of onMultiStepImport up to the import, in the order of the code
StepOrder == <<"askForSource", "askForTarget", "importFromFile">>

\* The current invocation of the handler is over
HandlerEnded == hpc \in {"returned", "escaped"} /\ runs > 0

\* C13: the handler calls the source chooser, then the target chooser, then
\* the import, in that order; and an invocation in which the user cancelled
\* a chooser ends without importFromFile having been called, by a normal
\* return of the handler, the cancellation caught.
C13_OrderedStepsCancelCaught ==
    /\ \A i \in 1..Len(calls) : i <= Len(StepOrder) => calls[i] = StepOrder[i]
    /\ (HandlerEnded /\ ~Called("importFromFile")) =>
           /\ hpc = "returned"
           /\ handlerExc = "none"

\* The current invocation's importFromFile returned without an exception
ImportSucceeded == ImportStarted /\ importExit = "returned"

\* C14: after a successful import recordCount is at most lineCount, and once
\* the handler is over exactly one summary has been presented: the simple
\* confirmation when the two counts are equal, the confirmation with rejects
\* when lineCount is the larger.
C14_OneSummaryByCounts ==
    /\ ImportSucceeded => recordCount <= lineCount
    /\ (ImportSucceeded /\ HandlerEnded) =>
           /\ Len(calls) = Len(StepOrder) + 1
           /\ lineCount = recordCount =>
                  calls[Len(calls)] = "confirmImportSimple"
           /\ lineCount > recordCount =>
                  calls[Len(calls)] \in {"confirmImportWithBads",
                                         "confirmImportsWithBads"}

----------------------------------------------------------------------------
(* Properties of the record parser (specification ParseSpec) *)

NoDelim(w, d) == \A i \in 1..Len(w) : w[i] # d

\* The seven field texts are those of a record of the documented format.
WellFormedFields(f) ==
    /\ Len(f.inWord) >= 1 /\ NoDelim(f.inWord, f.delim)
    /\ Len(f.outWord) >= 1 /\ NoDelim(f.outWord, f.delim)
    /\ \A i \in 1..Len(f.lang) : f.lang[i] \in LangChars
    /\ NoDelim(f.synth, f.delim)
    /\ NoDelim(f.voice, f.delim)
    /\ Len(f.outLang) >= 1
    /\ \A i \in 1..Len(f.outLang) : f.outLang[i] \in OutLangChars
    /\ f.case \in {<<"0">>, <<"1">>}

\* All six fields of a Rule are set and in normal form.
Complete(o) ==
    /\ {"inWord", "outWord", "lang", "synth", "voice", "case"} \subseteq DOMAIN o
    /\ o["inWord"] # None /\ Len(o["inWord"]) >= 1
    /\ o["outWord"] # None /\ Len(o["outWord"]) >= 1
    /\ o["outWord"] = SoundTagSub(o["outWord"])
    /\ \A n \in {"lang", "synth", "voice"} : o[n] \notin {<<>>, <<"*">>}
    /\ o["case"] \in {PyTrue, PyFalse}

C6_GrammarAccepts ==
    ppc = "done" =>
        /\ raised = "none" => (srcFields # NoFields /\ WellFormedFields(srcFields))
        /\ ( /\ srcFields # NoFields
             /\ WellFormedFields(srcFields)
             /\ Len(srcFields.inWord) = 1 \/ Len(srcFields.outWord) = 1
             /\ SoundTagSub(srcFields.outWord) # <<>>
             /\ \A n \in {"lang", "synth", "voice"} : srcFields[n] # <<>> )
               => raised = "none"

\* The line of the example: .cat.kat.*.*.*.*.0.
CatLine == <<".", "c", "a", "t", ".", "k", "a", "t", ".", "*", ".", "*", ".", "*", ".", "*", ".", "0", ".">>

\* C7: in a well-formed line, a language, synthesizer or voice field that is
\* "*" or empty is accepted and becomes the one unspecified value, any other
\* text is kept; the line .cat.kat.*.*.*.*.0. parses to cat, kat, three
\* unspecified fields and case-insensitive.
C7_WildcardUnspecified ==
    (ppc = "done" /\ srcFields # NoFields /\ WellFormedFields(srcFields)
         /\ SoundTagSub(srcFields.outWord) # <<>>) =>
        /\ raised = "none"
        /\ \A n \in {"lang", "synth", "voice"} :
               item[n] = IF srcFields[n] \in {<<>>, <<"*">>} THEN None ELSE srcFields[n]
        /\ jdfLine = CatLine =>
               /\ item["inWord"] = <<"c", "a", "t">>
               /\ item["outWord"] = <<"k", "a", "t">>
               /\ item["lang"] = None /\ item["synth"] = None /\ item["voice"] = None
               /\ item["case"] = PyFalse

\* C8: for a line of the documented shape every sound tag is removed from the
\* out-word; an out-word left empty makes the parse fail with ValueError and
\* yield no Rule, otherwise the Rule's outWord is the out-word without its
\* sound tags.
C8_SoundTagsStripped ==
    (ppc = "done" /\ srcFields # NoFields /\ WellFormedFields(srcFields)) =>
        IF SoundTagSub(srcFields.outWord) = <<>>
        THEN raised = "ValueError" /\ item = NoItem
        ELSE raised = "none" /\ item["outWord"] = SoundTagSub(srcFields.outWord)

\* C9: a None input is signalled by an error that is not the format error
\* (ValueError), and a line that is not None and does not parse is signalled
\* by ValueError and by nothing else.
C9_ErrorKinds ==
    ppc = "done" =>
        /\ jdfLine = None => raised \notin {"none", "ValueError"}
        /\ (jdfLine # None /\ raised # "none") => raised = "ValueError"

\* Valid Rules, in normal form.
Rules ==
    [inWord : InWords, outWord : {w \in OutWords : SoundTagSub(w) = w},
     lang : {None} \cup (LangTexts \ {<<>>, <<"*">>}),
     synth : {None} \cup (SynthTexts \ {<<>>, <<"*">>}),
     voice : {None} \cup (VoiceTexts \ {<<>>, <<"*">>}),
     case : {PyTrue, PyFalse}]

Star(v) == IF v = None THEN <<"*">> ELSE v

\* The field texts a Rule is written back as, with separator d and output
\* language ol.
FieldsOfRule(r, d, ol) ==
    [delim |-> d, inWord |-> r.inWord, outWord |-> r.outWord,
     lang |-> Star(r.lang), synth |-> Star(r.synth), voice |-> Star(r.voice),
     outLang |-> ol, case |-> IF r.case = PyTrue THEN <<"1">> ELSE <<"0">>]

\* C10: a valid Rule written back as a line with a separator that occurs in
\* none of its fields parses again, to a Rule with the same six fields.
C10_RoundTrip ==
    ppc = "done" =>
        \A r \in Rules, d \in Delims, ol \in OutLangTexts :
            jdfLine = Serialize(FieldsOfRule(r, d, ol)) =>
                /\ raised = "none"
                /\ \A n \in {"inWord", "outWord", "lang", "synth", "voice", "case"} :
                       item[n] = r[n]

====
